---- MODULE Spec2Model ----
(***************************************************************************)
(* Model of art.py: the layer catalog (load_layers), one generation        *)
(* attempt (generate_nft) and the driving loop of main.                    *)
(*                                                                         *)
(* A file name is a record [base, ext]: ext is the part os.path.splitext   *)
(* splits off, and str.endswith compares it byte for byte.  A directory    *)
(* tree maps each layer to [exists, files]: exists is whether os.listdir   *)
(* returns, files what the directory holds.                                *)
(* random.choice and the outcome of opening/compositing the trait images   *)
(* are the nondeterministic inputs of an attempt.  The tree is the one      *)
(* load_layers finds at line 107, which need not be the one setup_folders  *)
(* left (a directory can be removed or unreadable by then).  Writes to the *)
(* output directories, which setup_folders created, succeed.               *)
(***************************************************************************)
EXTENDS Integers, Sequences, FiniteSets, TLC

VARIABLES
    tree,                   \* the layers/ directory tree as load_layers lists it
    NUM_NFTS,               \* the requested count (target_count)
    layers,                 \* main: the catalog returned by load_layers
    count,                  \* main: accepted artifacts so far
    nft_id,                 \* main: id of the next attempt
    generated_combinations, \* main: the Generated-Combination Set
    images,                 \* output/images:   set of [id, layers]
    metadata,               \* output/metadata: set of [id, attributes]
    pc,                     \* position of main
    warned,                 \* the safety-valve warning was printed
    reported,               \* the count printed by the final summary (-1: not yet)
    calls,                  \* number of calls of generate_nft so far
    last,                   \* the last call of generate_nft: id, draw, case, result
    accepted,               \* the truthy results main saw, in order: [id, combination]
    failed                  \* combinations whose render raised inside the try

vars == <<tree, NUM_NFTS, layers, count, nft_id, generated_combinations, images,
          metadata, pc, warned, reported, calls, last, accepted, failed>>

----------------------------------------------------------------------------
(* Bounds and program constants *)

MaxTarget == 2

Multiplier == 10

LAYER_DIRS == <<"background", "Fur", "eyes", "mouth", "Cloth", "earring", "hat">>

LayerNames == {LAYER_DIRS[i] : i \in 1..Len(LAYER_DIRS)}

ImageExts == {".png", ".jpg", ".jpeg"}

----------------------------------------------------------------------------
(* Directory trees the run may find under layers/ when load_layers runs *)

F(b, e) == [base |-> b, ext |-> e]

Dir(fs) == [exists |-> TRUE, files |-> fs]

Missing == [exists |-> FALSE, files |-> <<>>]

\* a directory os.listdir raises on (no permission), whatever it holds
Unreadable(fs) == [exists |-> FALSE, files |-> fs]

TreeOf(bg, fur, hat, rest) ==
    [l \in LayerNames |->
        CASE l = "background" -> bg
          [] l = "Fur"        -> fur
          [] l = "hat"        -> hat
          [] OTHER            -> rest]

\* what setup_folders leaves of a fresh checkout: one placeholder per layer
TreePlaceholders ==
    TreeOf(Dir(<<F("placeholder", ".png")>>), Dir(<<F("placeholder", ".png")>>),
           Dir(<<F("placeholder", ".png")>>), Dir(<<F("placeholder", ".png")>>))

\* background: [a.png, b.png], hat: [x.png], nothing else
TreeTwoByOne ==
    TreeOf(Dir(<<F("a", ".png"), F("b", ".png")>>), Missing,
           Dir(<<F("x", ".png")>>), Dir(<<>>))

\* no layer holds an accepted image
TreeEmpty ==
    TreeOf(Dir(<<>>), Missing, Dir(<<F("notes", ".txt")>>), Missing)

\* one trait in one layer
TreeSingle ==
    TreeOf(Dir(<<F("a", ".png")>>), Dir(<<>>), Unreadable(<<F("h", ".png")>>), Dir(<<>>))

\* three traits in one layer, among files load_layers does not accept
TreeThree ==
    TreeOf(Dir(<<F("a", ".png"), F("readme", ".txt"), F("b", ".jpg"), F("c", ".jpeg")>>),
           Dir(<<F("X", ".PNG")>>), Missing, Dir(<<>>))

Trees == {TreePlaceholders, TreeTwoByOne, TreeEmpty, TreeSingle, TreeThree}

----------------------------------------------------------------------------
(* load_layers *)

Reverse(s) == [i \in 1..Len(s) |-> s[Len(s) + 1 - i]]

\* os.listdir returns the entries of a directory in an order of its own
ListingOrders == {"stored", "reversed"}

listdir(d, order) ==
    [exists |-> d.exists,
     files  |-> IF order = "stored" THEN d.files ELSE Reverse(d.files)]

Listing(t, order) == [l \in LayerNames |-> listdir(t[l], order)]

endswith(f) == f.ext \in ImageExts

\* a listing loop that stops at the first entry that is no image
RECURSIVE UntilNonImage(_)
UntilNonImage(fs) ==
    IF fs = <<>> \/ ~endswith(Head(fs)) THEN <<>>
    ELSE <<Head(fs)>> \o UntilNonImage(Tail(fs))

load_layers_UntilNonImage(t) ==
    [l \in LayerNames |->
        IF t[l].exists THEN UntilNonImage(t[l].files) ELSE <<>>]

\* t is the tree as os.listdir lists it
load_layers(t) ==
    [l \in LayerNames |->
        IF t[l].exists THEN SelectSeq(t[l].files, endswith) ELSE <<>>]

----------------------------------------------------------------------------
(* generate_nft *)

\* line 50 with break for continue: the draw stops at the first empty layer
RECURSIVE Draws_StopAtEmpty(_, _)
Draws_StopAtEmpty(ls, n) ==
    IF n = 0 THEN {<<>>}
    ELSE LET layer == LAYER_DIRS[n]
             prev  == Draws_StopAtEmpty(ls, n - 1)
         IN  IF \E k \in 1..n : Len(ls[LAYER_DIRS[k]]) = 0 THEN prev
             ELSE {Append(c, <<layer, ls[layer][i]>>) :
                       c \in prev, i \in 1..Len(ls[layer])}

\* the combinations lines 47-52 can draw over the first n layers of LAYER_DIRS
RECURSIVE Draws(_, _)
Draws(ls, n) ==
    IF n = 0 THEN {<<>>}
    ELSE LET layer == LAYER_DIRS[n]
             prev  == Draws(ls, n - 1)
         IN  IF Len(ls[layer]) = 0 THEN prev
             ELSE {Append(c, <<layer, ls[layer][i]>>) :
                       c \in prev, i \in 1..Len(ls[layer])}

Combinations(ls) == Draws(ls, Len(LAYER_DIRS))

None == [some |-> FALSE, val |-> <<>>]

Some(c) == [some |-> TRUE, val |-> c]

splitext(trait) == trait.base

\* attributes built by inserting at the front instead of appending
Attributes_Reversed(combination) ==
    [i \in 1..Len(combination) |->
        [trait_type |-> combination[Len(combination) + 1 - i][1],
         value |-> splitext(combination[Len(combination) + 1 - i][2])]]

Attributes(combination) ==
    [i \in 1..Len(combination) |->
        [trait_type |-> combination[i][1], value |-> splitext(combination[i][2])]]

WriteFile(dir, rec) == {r \in dir : r.id # rec.id} \cup {rec}

\* generate_nft without the membership test of lines 56-57
generate_nft_NoUniquenessCheck(id, seen, combination, failAt, imgs, meta) ==
    LET seen2 == seen \cup {combination}
    IN  IF failAt # 0
        THEN [result |-> None, seen |-> seen2, images |-> imgs,
              metadata |-> meta, raised |-> FALSE]
        ELSE IF Len(combination) = 0
        THEN [result |-> None, seen |-> seen2, images |-> imgs,
              metadata |-> meta, raised |-> TRUE]
        ELSE [result |-> Some(combination), seen |-> seen2,
              images |-> WriteFile(imgs, [id |-> id, layers |-> combination]),
              metadata |-> WriteFile(meta, [id |-> id,
                                            attributes |-> Attributes(combination)]),
              raised |-> FALSE]

\* generate_nft whose except branch takes the combination out of the set again
generate_nft_ReleaseOnFailure(id, seen, combination, failAt, imgs, meta) ==
    IF combination \in seen
    THEN [result |-> None, seen |-> seen, images |-> imgs, metadata |-> meta,
          raised |-> FALSE]
    ELSE LET seen2 == seen \cup {combination}
         IN  IF failAt # 0
             THEN [result |-> None, seen |-> seen, images |-> imgs,
                   metadata |-> meta, raised |-> FALSE]
             ELSE IF Len(combination) = 0
             THEN [result |-> None, seen |-> seen2, images |-> imgs,
                   metadata |-> meta, raised |-> TRUE]
             ELSE [result |-> Some(combination), seen |-> seen2,
                   images |-> WriteFile(imgs, [id |-> id, layers |-> combination]),
                   metadata |-> WriteFile(meta, [id |-> id,
                                                 attributes |-> Attributes(combination)]),
                   raised |-> FALSE]

\* generate_nft without the try/except of lines 64-75
generate_nft_NoTry(id, seen, combination, failAt, imgs, meta) ==
    IF combination \in seen
    THEN [result |-> None, seen |-> seen, images |-> imgs, metadata |-> meta,
          raised |-> FALSE]
    ELSE LET seen2 == seen \cup {combination}
         IN  IF failAt # 0 \/ Len(combination) = 0
             THEN [result |-> None, seen |-> seen2, images |-> imgs,
                   metadata |-> meta, raised |-> TRUE]
             ELSE [result |-> Some(combination), seen |-> seen2,
                   images |-> WriteFile(imgs, [id |-> id, layers |-> combination]),
                   metadata |-> WriteFile(meta, [id |-> id,
                                                 attributes |-> Attributes(combination)]),
                   raised |-> FALSE]

\* One call.  combination is the draw of lines 47-52; failAt is the index of the
\* first layer whose open/convert/resize/composite raises (0: none does).
\* raised: an exception left the function (base_image is None at line 79).
generate_nft(id, seen, combination, failAt, imgs, meta) ==
    IF combination \in seen
    THEN [result |-> None, seen |-> seen, images |-> imgs, metadata |-> meta,
          raised |-> FALSE]
    ELSE LET seen2 == seen \cup {combination}
         IN  IF failAt # 0
             THEN [result |-> None, seen |-> seen2, images |-> imgs,
                   metadata |-> meta, raised |-> FALSE]
             ELSE IF Len(combination) = 0
             THEN [result |-> None, seen |-> seen2, images |-> imgs,
                   metadata |-> meta, raised |-> TRUE]
             ELSE [result |-> Some(combination), seen |-> seen2,
                   images |-> WriteFile(imgs, [id |-> id, layers |-> combination]),
                   metadata |-> WriteFile(meta, [id |-> id,
                                                 attributes |-> Attributes(combination)]),
                   raised |-> FALSE]

----------------------------------------------------------------------------
(* main *)

\* main counting every call that returned, whatever it returned
Truthy_Any(result) == TRUE

\* Python truthiness of generate_nft's result: None and [] are falsy
Truthy(result) == result.some /\ Len(result.val) > 0

\* a loop that tests count <= NUM_NFTS
LoopTest_Inclusive(c, target) == c <= target

LoopTest(c, target) == c < target

\* a safety check one attempt late
SafetyCheck_Late(id, target) == id > target * Multiplier + 1

SafetyCheck(id, target) == id > target * Multiplier

\* an id assigned at acceptance time: it advances only past an accepted attempt
NextId_OnAccept(id, result) == IF Truthy(result) THEN id + 1 ELSE id

\* an id that advances only past an attempt that gave no artifact
NextId_OnReject(id, result) == IF Truthy(result) THEN id ELSE id + 1

\* line 119: the id advances after every call that returned
NextId(id, result) == id + 1

NoCall == [id |-> 0, combination |-> <<>>, kind |-> "none", result |-> None]

\* which case of generate_nft a call was: its draw was in the set already, or a
\* trait image of a novel draw raised, or every trait image was composited
Kind(combination, failAt, seen) ==
    IF combination \in seen THEN "duplicate"
    ELSE IF failAt # 0 THEN "failed"
    ELSE "novel"

Init ==
    /\ tree \in Trees
    /\ NUM_NFTS \in 0..MaxTarget
    /\ layers = [l \in LayerNames |-> <<>>]
    /\ count = 0
    /\ nft_id = 1
    /\ generated_combinations = {}
    /\ images = {}
    /\ metadata = {}
    /\ pc = "load"
    /\ warned = FALSE
    /\ reported = -1
    /\ calls = 0
    /\ last = NoCall
    /\ accepted = <<>>
    /\ failed = {}

\* line 107 (then lines 110-112, which Init already holds)
Load ==
    /\ pc = "load"
    /\ \E order \in ListingOrders : layers' = load_layers(Listing(tree, order))
    /\ pc' = "loop"
    /\ UNCHANGED <<tree, NUM_NFTS, count, nft_id, generated_combinations, images,
                   metadata, warned, reported, calls, last, accepted, failed>>

\* one iteration of the while loop, lines 114-124
Iteration(combination, failAt) ==
    /\ pc = "loop"
    /\ LoopTest(count, NUM_NFTS)
    /\ LET r  == generate_nft(nft_id, generated_combinations, combination, failAt,
                              images, metadata)
           k  == Kind(combination, failAt, generated_combinations)
       IN  /\ generated_combinations' = r.seen
           /\ images' = r.images
           /\ metadata' = r.metadata
           /\ calls' = calls + 1
           /\ last' = [id |-> nft_id, combination |-> combination, kind |-> k,
                        result |-> r.result]
           /\ failed' = IF k = "failed" THEN failed \cup {combination} ELSE failed
           /\ IF r.raised
              THEN /\ pc' = "crashed"
                   /\ UNCHANGED <<count, nft_id, warned, accepted>>
              ELSE /\ count' = IF Truthy(r.result) THEN count + 1 ELSE count
                   /\ accepted' = IF Truthy(r.result)
                                  THEN Append(accepted, [id |-> nft_id,
                                                         combination |-> r.result.val])
                                  ELSE accepted
                   /\ nft_id' = NextId(nft_id, r.result)
                   /\ IF SafetyCheck(nft_id', NUM_NFTS)
                      THEN warned' = TRUE /\ pc' = "summary"
                      ELSE warned' = warned /\ pc' = "loop"
    /\ UNCHANGED <<tree, NUM_NFTS, layers, reported>>

Attempt ==
    \E combination \in Combinations(layers) :
        \E failAt \in 0..Len(combination) :
            Iteration(combination, failAt)

\* the while test of line 114 fails
LoopExit ==
    /\ pc = "loop"
    /\ ~LoopTest(count, NUM_NFTS)
    /\ pc' = "summary"
    /\ UNCHANGED <<tree, NUM_NFTS, layers, count, nft_id, generated_combinations,
                   images, metadata, warned, reported, calls, last, accepted, failed>>

\* lines 126-128
Summary ==
    /\ pc = "summary"
    /\ reported' = count
    /\ pc' = "done"
    /\ UNCHANGED <<tree, NUM_NFTS, layers, count, nft_id, generated_combinations,
                   images, metadata, warned, calls, last, accepted, failed>>

Next == Load \/ Attempt \/ LoopExit \/ Summary

Spec == Init /\ [][Next]_vars

\* main is one sequential thread: it takes its next step whenever it has one
FairSpec == Spec /\ WF_vars(Next)

Terminated == pc \in {"done", "crashed"}

----------------------------------------------------------------------------
(* Properties *)

Loaded == pc # "load"

AllEmpty(ls) == \A l \in LayerNames : Len(ls[l]) = 0

\* product of the category sizes, an empty category counting as factor 1
RECURSIVE Product(_, _)
Product(ls, n) ==
    IF n = 0 THEN 1
    ELSE (IF Len(ls[LAYER_DIRS[n]]) = 0 THEN 1 ELSE Len(ls[LAYER_DIRS[n]]))
         * Product(ls, n - 1)

IsCall == calls' = calls + 1

\* C1: no two artifacts written in a run (image and metadata of an accepted
\* attempt) carry the same ordered list of (category, trait) pairs.
C1_UniqueCombinations ==
    /\ \A a, b \in images : a.layers = b.layers => a.id = b.id
    /\ \A i, j \in 1..Len(accepted) :
           accepted[i].combination = accepted[j].combination => i = j
    /\ {a.id : a \in images} = {m.id : m \in metadata}

C1_Witness ==
    /\ Cardinality(images) = 2
    /\ failed # {}
    /\ calls > Cardinality(generated_combinations)

C3_AllEmptyEndsByValve ==
    (Loaded /\ AllEmpty(layers) /\ NUM_NFTS > 0) =>
        /\ pc # "crashed"
        /\ Cardinality(images) <= 1
        /\ (pc = "done" => warned)

\* C4: the safety valve fires only in runs that have not reached the target.
C4_ValveOnlyOnShortfall == warned => count < NUM_NFTS

\* C5 (as claimed): background [a.png, b.png], hat [x.png], target 2, no render
\* failure: every run ends with exactly the two artifacts.
C5_AlwaysBothArtifacts ==
    (tree = TreeTwoByOne /\ NUM_NFTS = 2 /\ failed = {} /\ Terminated) =>
        /\ pc = "done"
        /\ count = 2
        /\ {a.layers : a \in images} = Combinations(load_layers(TreeTwoByOne))
        /\ Cardinality(images) = 2
        /\ Cardinality(metadata) = 2
        /\ \A m \in metadata : Len(m.attributes) = 2

\* C5 (amended): such a run ends with exactly the two artifacts, unless all 20
\* attempts of the budget drew the same combination: then it ends through the
\* safety valve with that one artifact.
C5_BothArtifactsOrOneDraw ==
    (tree = TreeTwoByOne /\ NUM_NFTS = 2 /\ failed = {} /\ Terminated) =>
        /\ pc = "done"
        /\ Cardinality(images) = count
        /\ Cardinality(metadata) = count
        /\ {a.id : a \in images} = {m.id : m \in metadata}
        /\ {a.layers : a \in images} = generated_combinations
        /\ \A m \in metadata : Len(m.attributes) = 2
        /\ \/ /\ count = 2
              /\ generated_combinations = Combinations(load_layers(TreeTwoByOne))
           \/ /\ count = 1
              /\ calls = Multiplier * NUM_NFTS
              /\ warned

C5_Witness ==
    /\ tree = TreeTwoByOne /\ NUM_NFTS = 2 /\ failed = {} /\ pc = "done"
    /\ count = 2
    /\ calls > 2
    /\ {a.layers : a \in images} =
          { <<<<"background", F("a", ".png")>>, <<"hat", F("x", ".png")>>>>,
            <<<<"background", F("b", ".png")>>, <<"hat", F("x", ".png")>>>> }

\* C6: with fewer possible combinations than target_count, every run ends
\* through the safety valve with the warning and count < target_count.
C6_TooFewCombinationsEndsByValve ==
    (Terminated /\ Product(layers, Len(LAYER_DIRS)) < NUM_NFTS) =>
        /\ pc = "done"
        /\ warned
        /\ count < NUM_NFTS

\* C7: with target_count = 0 no call of generate_nft is made, nothing is
\* written, the Generated-Combination Set stays empty and no warning is printed.
C7_ZeroTarget ==
    NUM_NFTS = 0 =>
        /\ calls = 0
        /\ images = {} /\ metadata = {}
        /\ generated_combinations = {}
        /\ ~warned
        /\ pc # "crashed"
        /\ (pc = "done" => reported = 0)

C7_Witness ==
    /\ NUM_NFTS = 0
    /\ pc = "done"
    /\ Combinations(layers) # {<<>>}

\* C8: an attempt whose trait image raises writes no image and no metadata,
\* its combination stays in the Generated-Combination Set, every later
\* attempt that draws it is a rejected duplicate, and no artifact carries it.
C8_FailedCombinationStaysSeen ==
    [][ /\ (IsCall /\ last'.kind = "failed") =>
              /\ images' = images /\ metadata' = metadata
              /\ last'.result = None
              /\ last'.combination \in generated_combinations'
        /\ (IsCall /\ last'.combination \in failed) =>
              /\ last'.kind = "duplicate"
              /\ last'.result = None
              /\ images' = images /\ metadata' = metadata
        /\ \A c \in failed' :
              /\ c \in generated_combinations'
              /\ \A a \in images' : a.layers # c
              /\ \A m \in metadata' : m.attributes # Attributes(c)
              /\ \A i \in 1..Len(accepted') : accepted'[i].combination # c
      ]_vars

C8_Witness ==
    /\ last.kind = "duplicate"
    /\ last.combination \in failed
    /\ count >= 1
    /\ pc = "done"

\* C9: an attempt whose trait image raises leaves count unchanged and does
\* not stop the run: the loop goes on with attempt id failed id + 1 while
\* count < target_count and the attempt budget is not exhausted.
C9_FailureIsRecoverable ==
    [][ /\ (IsCall /\ last'.kind = "failed") =>
              /\ last'.id = nft_id
              /\ count' = count
              /\ nft_id' = nft_id + 1
              /\ pc' # "crashed"
              /\ (nft_id' <= Multiplier * NUM_NFTS =>
                      pc' = "loop" /\ count' < NUM_NFTS)
        /\ (IsCall /\ last.kind = "failed") => last'.id = last.id + 1
      ]_vars

C9_Witness ==
    /\ last.kind = "novel"
    /\ last.result # None
    /\ failed # {}
    /\ images # {}
    /\ \A a \in images : a.id > 1

\* C10: an attempt whose draw is already in the Generated-Combination Set
\* returns no artifact, consumes one attempt id and leaves count, the set and
\* the written image and metadata files unchanged.
C10_DuplicateRejected ==
    [][ (IsCall /\ last'.kind = "duplicate") =>
            /\ last'.result = None
            /\ last'.id = nft_id
            /\ nft_id' = nft_id + 1
            /\ count' = count
            /\ generated_combinations' = generated_combinations
            /\ images' = images
            /\ metadata' = metadata
            /\ accepted' = accepted
      ]_vars

C10_Witness ==
    /\ last.kind = "duplicate"
    /\ last.combination \in {a.layers : a \in images}
    /\ pc = "loop"
    /\ count < NUM_NFTS

Ids(dir) == {f.id : f \in dir}

\* C11: the k-th call of generate_nft uses id k, an artifact's image and
\* metadata carry the same id, accepted ids increase strictly in acceptance
\* order, and an id is missing from the output exactly when its attempt
\* returned no artifact.
C11_IdsAreAttemptNumbers ==
    /\ [](/\ calls > 0 => last.id = calls
          /\ Ids(images) = Ids(metadata)
          /\ Ids(images) = {accepted[i].id : i \in 1..Len(accepted)}
          /\ Ids(images) \subseteq 1..calls
          /\ \A i, j \in 1..Len(accepted) :
                 i < j => accepted[i].id < accepted[j].id)
    /\ [][IsCall =>
            /\ last'.id = calls'
            /\ (last'.id \in Ids(images')) = last'.result.some
            /\ (last'.id \in Ids(metadata')) = last'.result.some
            /\ Ids(images') \ {last'.id} = Ids(images)
            /\ Ids(metadata') \ {last'.id} = Ids(metadata)
       ]_vars

C11_Witness ==
    /\ Len(accepted) = 2
    /\ accepted[1].id = 2
    /\ accepted[2].id > 3
    /\ failed # {}

NonEmpty(l) == Len(layers[l]) > 0

Traits(ls, l) == {ls[l][i] : i \in 1..Len(ls[l])}

\* C12: the attributes of every artifact have one entry per non-empty category
\* and none for an empty one, in LAYER_DIRS order, and entry i carries the
\* category and the trait base name of the i-th layer composited into the image.
C12_AttributesMatchImage ==
    Loaded =>
        \A m \in metadata :
            \E a \in images :
                /\ a.id = m.id
                /\ Len(m.attributes) = Len(a.layers)
                /\ [i \in 1..Len(m.attributes) |-> m.attributes[i].trait_type]
                      = SelectSeq(LAYER_DIRS, NonEmpty)
                /\ \A i \in 1..Len(m.attributes) :
                       /\ m.attributes[i].trait_type = a.layers[i][1]
                       /\ m.attributes[i].value = a.layers[i][2].base
                       /\ a.layers[i][2] \in Traits(layers, a.layers[i][1])

C12_Witness ==
    \E m \in metadata :
        /\ Len(m.attributes) = 2
        /\ m.attributes[1] = [trait_type |-> "background", value |-> "b"]
        /\ m.attributes[2] = [trait_type |-> "hat", value |-> "x"]
        /\ \E a \in images :
               /\ a.id = m.id
               /\ a.layers = <<<<"background", F("b", ".png")>>, <<"hat", F("x", ".png")>>>>

\* str.lower on the extensions that occur
Lower(e) ==
    CASE e = ".PNG"  -> ".png"
      [] e = ".JPG"  -> ".jpg"
      [] e = ".JPEG" -> ".jpeg"
      [] OTHER       -> e

Files(t, l) == {t[l].files[i] : i \in 1..Len(t[l].files)}

\* C13: a file is a trait of its category exactly when its extension is .png,
\* .jpg or .jpeg compared case-insensitively.
C13_ExtensionCaseInsensitive ==
    Loaded =>
        \A l \in LayerNames :
            tree[l].exists =>
                \A f \in Files(tree, l) :
                    (f \in Traits(layers, l)) = (Lower(f.ext) \in ImageExts)

\* C14: a category whose directory is missing or cannot be listed maps to an
\* empty sequence, the catalog has an entry for every category of LAYER_DIRS,
\* and every attempt draws one trait from each non-empty category, in order,
\* and none from an empty one.
C14_MissingCategoryIsEmpty ==
    Loaded =>
        /\ DOMAIN layers = LayerNames
        /\ \A l \in LayerNames : ~tree[l].exists => layers[l] = <<>>
        /\ last.kind # "none" =>
              /\ [i \in 1..Len(last.combination) |-> last.combination[i][1]]
                    = SelectSeq(LAYER_DIRS, NonEmpty)
              /\ \A i \in 1..Len(last.combination) :
                     last.combination[i][2] \in Traits(layers, last.combination[i][1])

C14_Witness ==
    /\ ~tree["Fur"].exists
    /\ layers["Fur"] = <<>>
    /\ Len(layers["background"]) = 2
    /\ Len(layers["hat"]) = 1
    /\ last.result = Some(<<<<"background", F("a", ".png")>>, <<"hat", F("x", ".png")>>>>)
    /\ count = 2

\* C15: the Generated-Combination Set starts empty and only grows: every step
\* leaves a superset, an attempt with a novel draw (accepted or failed at
\* render) adds exactly that draw, a duplicate attempt and any other step add
\* nothing.
C15_SetGrowsMonotonically ==
    /\ generated_combinations = {}
    /\ [][ /\ generated_combinations \subseteq generated_combinations'
           /\ (IsCall /\ last'.kind \in {"novel", "failed"}) =>
                  /\ last'.combination \notin generated_combinations
                  /\ generated_combinations' =
                        generated_combinations \cup {last'.combination}
                  /\ Cardinality(generated_combinations') =
                        Cardinality(generated_combinations) + 1
           /\ (IsCall /\ last'.kind = "duplicate") =>
                  generated_combinations' = generated_combinations
           /\ ~IsCall => generated_combinations' = generated_combinations
       ]_vars

C15_Witness ==
    /\ Cardinality(generated_combinations) = 3
    /\ Cardinality(failed) = 1
    /\ count = 2
    /\ calls > 3

\* C16: an artifact is created once and never changed: every written image and
\* metadata file stays as it is, and an attempt that writes does so under an
\* id no earlier attempt of the run wrote.
C16_ArtifactsNeverOverwritten ==
    [][ /\ images \subseteq images'
        /\ metadata \subseteq metadata'
        /\ (IsCall /\ last'.result.some) =>
               /\ last'.id \notin Ids(images) \cup Ids(metadata)
               /\ Cardinality(images') = Cardinality(images) + 1
               /\ Cardinality(metadata') = Cardinality(metadata) + 1
      ]_vars

C16_Witness ==
    /\ Cardinality(images) = 2
    /\ Cardinality(metadata) = 2
    /\ last.result.some
    /\ last.id > 3
    /\ 1 \in Ids(images)

\* C17: a second call of load_layers on the unchanged tree, in whatever order
\* os.listdir lists it, returns a catalog with the same keys (LAYER_DIRS) and,
\* for every category, the same set of trait ids.
C17_LoadIsIdempotent ==
    Loaded =>
        \A order \in ListingOrders :
            LET again == load_layers(Listing(tree, order))
            IN  /\ DOMAIN again = LayerNames
                /\ DOMAIN layers = LayerNames
                /\ \A l \in LayerNames : Traits(again, l) = Traits(layers, l)

C17_Witness ==
    /\ Loaded
    /\ \E order \in ListingOrders :
           /\ load_layers(Listing(tree, order)) # layers
           /\ Len(layers["background"]) = 3
    /\ tree["Fur"].files # <<>>
    /\ layers["Fur"] = <<>>

AtLoopBoundary == pc \in {"loop", "summary", "done"}

\* C18: at every loop boundary count <= target_count, count <= size of the
\* Generated-Combination Set <= attempts made = nft_id - 1, and count is the
\* number of image files and of metadata files written; the count of the final
\* summary is the number of artifacts emitted.
C18_CountIsArtifactsEmitted ==
    AtLoopBoundary =>
        /\ count <= NUM_NFTS
        /\ count <= Cardinality(generated_combinations)
        /\ Cardinality(generated_combinations) <= calls
        /\ calls = nft_id - 1
        /\ count = Cardinality(images)
        /\ count = Cardinality(metadata)
        /\ count = Cardinality(Ids(images))
        /\ count = Cardinality(Ids(metadata))
        /\ pc = "done" => reported = Cardinality(images)
        /\ pc # "done" => reported = -1

C18_Witness ==
    /\ pc = "done"
    /\ reported = 1
    /\ NUM_NFTS = 2
    /\ Cardinality(generated_combinations) = 3
    /\ calls = Multiplier * NUM_NFTS

\* C19: once count has reached target_count no further attempt is made: the
\* last call of generate_nft is the one accepted as the target_count-th
\* artifact, and the Generated-Combination Set does not change afterwards.
C19_NoAttemptAfterTarget ==
    /\ []((Loaded /\ NUM_NFTS > 0 /\ count = NUM_NFTS) =>
             /\ Len(accepted) = NUM_NFTS
             /\ last.result = Some(accepted[NUM_NFTS].combination)
             /\ last.id = accepted[NUM_NFTS].id
             /\ last.id = calls
             /\ last.combination \in generated_combinations)
    /\ [][count = NUM_NFTS =>
              /\ ~IsCall
              /\ count' = count
              /\ generated_combinations' = generated_combinations
              /\ images' = images /\ metadata' = metadata
       ]_vars

C19_Witness ==
    /\ pc = "done"
    /\ NUM_NFTS = 2
    /\ count = NUM_NFTS
    /\ ~warned
    /\ calls > 3
    /\ failed # {}

====
